---- MODULE Spec2Model ----
(***************************************************************************)
(* A model of the order-fulfilment saga: the OrderWorkflow and its child   *)
(* ShippingWorkflow (src/src/workflows.py), the activity retry policy      *)
(* (src/src/activities.py), the effect functions with their SQL statements *)
(* (src/src/business_functions.py) and the tables they act on              *)
(* (src/src/database.py).                                                  *)
(*                                                                         *)
(* Spec     one OrderWorkflow run with its activities, its child workflows *)
(*          every signal it accepts and the get_status query; an           *)
(*          invocation the activity layer abandons on a timeout is stopped *)
(*          with its worker.                                               *)
(* SpecFair Spec under a service that schedules every ready task and a     *)
(*          clock that goes on (weak fairness on Progress).                *)
(* SpecLate the same run under the cancel and approve signals, where up to *)
(*          MaxLate abandoned invocations keep running and execute their   *)
(*          SQL statements late.  The workflow reads neither the store nor *)
(*          the result of an abandoned invocation, so its control flow is  *)
(*          the one of Spec.                                               *)
(* SpecFx   the effect functions alone, invoked concurrently with          *)
(*          arbitrary arguments, one SQL statement per step.               *)
(* SpecSeq  the effect functions alone, invoked one after another.         *)
(* SpecApi  the HTTP front end (src/src/api.py) over the workflow service: *)
(*          requests to start, signal and query the instance of one order, *)
(*          handled concurrently; the run itself is reduced to two steps.  *)
(***************************************************************************)
EXTENDS Integers, Sequences, FiniteSets, Bags, TLC

VARIABLES
    \* ---- the store (database.py create_tables)
    orders,                 \* rows of table orders, in insertion order
    payments,               \* rows of table payments, in insertion order
    events,                 \* rows of table events (a bag: id is SERIAL)
    \* ---- effect-function invocations (business_functions.py)
    inv,                    \* slot -> invocation record, NoInv when free
    lateLeft,               \* abandoned invocations that may still be kept running
    calls,                  \* invocations the effect harness has made
    \* ---- OrderWorkflow instance fields (workflows.py __init__)
    order,                  \* self._order
    cancelled,              \* self._cancelled
    manual_approval_received, \* self._manual_approval_received
    address_updated,        \* self._address_updated
    dispatch_failed_reason, \* self._dispatch_failed_reason
    shipping_retry_count,   \* self._shipping_retry_count
    \* ---- OrderWorkflow control
    pc,                     \* the suspension point of OrderWorkflow.run
    outcome,                \* how OrderWorkflow.run ended
    e,                      \* the exception bound in the retry loop's except clause
    timer,                  \* time-units elapsed in the current timed wait
    attempt,                \* attempt number of the activity being awaited
    child,                  \* the ShippingWorkflow instance being awaited
    \* ---- history
    started,                \* the steps OrderWorkflow.run has started
    children,               \* identifiers of the child workflows started
    cancelBeforeCharge,     \* cancel_order was processed before charge-payment started
    approvedAtStart,        \* approve_order was processed before run took its first step
    cancelAtStart,          \* cancel_order was processed before run took its first step
    delivered,              \* the last update_address processed: its address, and
                            \* whether self._order was set when it was processed
    repeated,               \* the signals among cancel_order and approve_order that
                            \* were processed again after having been processed
    handled,                \* the signal handlers of OrderWorkflow that have run
    \* ---- queries
    reply,                  \* the answer of get_status being returned to its caller,
                            \* until the workflow takes its next step
    \* ---- the HTTP front end (api.py) and the workflow service it talks to
    runs,                   \* instances started so far under the workflow id of the order
    requests                \* slot -> HTTP request being handled, NoRequest when free

storeVars == <<orders, payments, events>>
fieldVars == <<order, cancelled, manual_approval_received, address_updated,
               dispatch_failed_reason, shipping_retry_count>>
ctlVars   == <<pc, outcome, e, timer, attempt, child>>
noteVars  == <<cancelAtStart, delivered, repeated, handled>>
histVars  == <<started, children, cancelBeforeCharge, approvedAtStart, noteVars>>
sagaVars  == <<fieldVars, ctlVars, histVars>>
apiVars   == <<runs, requests>>
vars      == <<storeVars, inv, lateLeft, calls, sagaVars, reply, apiVars>>

(***************************************************************************)
(* Bounds of the model.                                                    *)
(***************************************************************************)
\* abandoned invocations that keep running, per run (SpecLate, SpecFx)
MaxLate == 1
\* invocations the effect harness makes (SpecFx, SpecSeq)
MaxCalls == 3
\* instances started under one workflow id (SpecApi)
MaxRuns == 2

(***************************************************************************)
(* Program constants.                                                      *)
(***************************************************************************)
maximum_attempts == 3             \* ACTIVITY_CONFIG retry_policy
max_shipping_retries == 3         \* _handle_shipping_with_retry
ReviewTimeout == 8                \* wait_condition(..., timeout=8 s)
HintTimeout == 2                  \* wait_condition(..., timeout=2 s)
RetrySleep == 1                   \* workflow.sleep(1)

None == "None"

\* the arguments of the run under study
OrderId == "O1"
PaymentId == "PAY1"
WorkflowId == "order-" \o OrderId

OrderIds == {"O1", "O2"}
PaymentIds == {"PAY1", "PAY2"}
Addresses == {"A1", "A2"}

Slots == 1 .. (MaxLate + 1)

(***************************************************************************)
(* Values.                                                                 *)
(***************************************************************************)
\* [{"sku": "ABC", "qty": q}]
Items(q) == << [sku |-> "ABC", qty |-> q] >>

NoOrder == [order_id |-> None, items |-> << >>, address |-> None]

\* the dict order_received returns
OrderPayload(order_id) == [order_id |-> order_id, items |-> Items(1), address |-> None]

\* the orders the effect harness passes to the effect functions
HarnessOrders == { [order_id |-> "O1", items |-> Items(1), address |-> None],
                   [order_id |-> "O2", items |-> Items(2), address |-> None] }

RECURSIVE SumQty(_)
SumQty(items) == IF items = << >> THEN 0 ELSE Head(items).qty + SumQty(Tail(items))

\* amount = sum(i.get("qty", 1) for i in order.get("items", []))
Amount(o) == SumQty(o.items)

NoRow == [payment_id |-> None, order_id |-> None, status |-> None, amount |-> 0]

NoVal == [text |-> None, amount |-> 0, order |-> NoOrder]

NoInv == [eff |-> None, order |-> NoOrder, payment_id |-> None, pc |-> None,
          awaited |-> FALSE, existing |-> NoRow, val |-> NoVal]

\* HTTP requests handled at a time
ApiSlots == 1 .. 2

NoRequest == [op |-> None, pc |-> None, seen |-> None, code |-> 0]

\* no query being answered
NoReply == [answered |-> FALSE, order |-> NoOrder, cancelled |-> FALSE, approved |-> FALSE,
            address_updated |-> FALSE, shipping_retry_count |-> 0,
            dispatch_failed_reason |-> None]

\* repeats are not recorded in this run
NotRecorded == {"not recorded"}

\* the record of repeated signals after one more `signal`, processed before or not
Repeats(signal, before) ==
    IF repeated # NotRecorded /\ before THEN repeated \cup {signal} ELSE repeated

\* no update_address processed so far
NoDelivery == [address |-> None, order_present |-> FALSE]

NoChild == [id |-> None, pc |-> None, err |-> None, result |-> None]

(***************************************************************************)
(* The store: tables and single SQL statements.                            *)
(***************************************************************************)
HasOrder(tbl, id) == \E k \in DOMAIN tbl : tbl[k].id = id

OrderState(tbl, id) ==
    IF HasOrder(tbl, id)
    THEN tbl[CHOOSE k \in DOMAIN tbl : tbl[k].id = id].state
    ELSE None

\* mutant: INSERT ... ON CONFLICT (id) DO UPDATE SET state
InsertOrderIfAbsent_Upsert(tbl, id, state, items) ==
    IF HasOrder(tbl, id)
    THEN [k \in DOMAIN tbl |-> IF tbl[k].id = id THEN [tbl[k] EXCEPT !.state = state] ELSE tbl[k]]
    ELSE Append(tbl, [id |-> id, state |-> state, items |-> items])

\* INSERT INTO orders ... ON CONFLICT (id) DO NOTHING
InsertOrderIfAbsent(tbl, id, state, items) ==
    IF HasOrder(tbl, id) THEN tbl
    ELSE Append(tbl, [id |-> id, state |-> state, items |-> items])

\* UPDATE orders SET state = $1 WHERE id = $3
UpdateOrderState(tbl, id, state) ==
    [k \in DOMAIN tbl |-> IF tbl[k].id = id THEN [tbl[k] EXCEPT !.state = state] ELSE tbl[k]]

PaymentRows(tbl, pid) == { k \in DOMAIN tbl : tbl[k].payment_id = pid }

\* SELECT * FROM payments WHERE payment_id = $1  (fetchrow: a row or None)
SelectPayment(tbl, pid) ==
    IF PaymentRows(tbl, pid) = {} THEN NoRow
    ELSE tbl[CHOOSE k \in PaymentRows(tbl, pid) : \A j \in PaymentRows(tbl, pid) : k <= j]

\* mutant: the payments table without its primary key
PaymentKeyConflict_NoKey(tbl, pid) == FALSE

\* payments.payment_id is the PRIMARY KEY: an INSERT of a present key is rejected
PaymentKeyConflict(tbl, pid) == PaymentRows(tbl, pid) # {}

\* payments.order_id and events.order_id REFERENCE orders(id)
OrderKeyMissing(tbl, id) == ~HasOrder(tbl, id)

EventRow(order_id, type) == [order_id |-> order_id, type |-> type]

EventCount(order_id, type) == CopiesIn(EventRow(order_id, type), events)

EventTotal == BagCardinality(events)

(***************************************************************************)
(* Effect-function invocations.  An invocation runs flaky_call, then its   *)
(* SQL statements one at a time (each conn.execute commits by itself), and *)
(* ends in "ret" with its return value or in "err" with its exception.     *)
(***************************************************************************)
FirstStatement(eff) ==
    CASE eff = "order_received"     -> "insert_order"
      [] eff = "order_validated"    -> "select_order"
      [] eff = "payment_charged"    -> "select_payment"
      [] eff = "package_prepared"   -> "update_state"
      [] eff = "carrier_dispatched" -> "update_state"

\* what the effect functions read of the order they are passed: order_id and items
EffectArgs(o) == [o EXCEPT !.address = None]

NewInvocation(eff, o, pid, awaited) ==
    [eff |-> eff, order |-> EffectArgs(o), payment_id |-> pid, pc |-> "flaky",
     awaited |-> awaited, existing |-> NoRow, val |-> NoVal]

Busy(i) == inv[i] # NoInv
FreeSlots(pool) == { i \in Slots : pool[i] = NoInv }
LowestFree(pool) == CHOOSE i \in FreeSlots(pool) : \A j \in FreeSlots(pool) : i <= j
Spawn(pool, rec) == [pool EXCEPT ![LowestFree(pool)] = rec]

\* the invocation ends: its caller sees the outcome, unless it was abandoned
Ends(i, label, existing, val) ==
    inv' = IF inv[i].awaited
           THEN [inv EXCEPT ![i].pc = label, ![i].existing = existing, ![i].val = val]
           ELSE [inv EXCEPT ![i] = NoInv]

Returns(i, text, amount, o) ==
    Ends(i, "ret", inv[i].existing, [text |-> text, amount |-> amount, order |-> o])

Raises(i, text) == Ends(i, "err", inv[i].existing, [NoVal EXCEPT !.text = text])

At(i, eff, label) == inv[i].eff = eff /\ inv[i].pc = label

\* flaky_call: raise, or sleep 300 s, or return at once
flaky_call(i) ==
    /\ Busy(i) /\ inv[i].pc = "flaky"
    /\ \/ Raises(i, "RuntimeError")
       \/ inv' = [inv EXCEPT ![i].pc = "hung"]
       \/ inv' = [inv EXCEPT ![i].pc = FirstStatement(inv[i].eff)]
    /\ UNCHANGED <<storeVars, lateLeft, calls, calls, sagaVars>>
    /\ reply' = NoReply
    /\ UNCHANGED apiVars

\* asyncio.sleep(300) ends in an invocation nobody awaits any more
flaky_call_wakes(i) ==
    /\ Busy(i) /\ inv[i].pc = "hung" /\ ~inv[i].awaited
    /\ inv' = [inv EXCEPT ![i].pc = FirstStatement(inv[i].eff)]
    /\ UNCHANGED <<storeVars, lateLeft, calls, calls, sagaVars>>
    /\ reply' = NoReply
    /\ UNCHANGED apiVars

order_received(i) ==
    /\ At(i, "order_received", "insert_order")
    /\ orders' = InsertOrderIfAbsent(orders, inv[i].order.order_id, "received", Items(1))
    /\ Returns(i, "order", 0, OrderPayload(inv[i].order.order_id))
    /\ UNCHANGED <<payments, events, lateLeft, calls, sagaVars>>
    /\ reply' = NoReply
    /\ UNCHANGED apiVars

order_validated_select(i) ==
    /\ At(i, "order_validated", "select_order")
    /\ IF ~HasOrder(orders, inv[i].order.order_id) THEN Raises(i, "ValueError")
       ELSE IF inv[i].order.items = << >> THEN Raises(i, "ValueError")
       ELSE inv' = [inv EXCEPT ![i].pc = "update_state"]
    /\ UNCHANGED <<storeVars, lateLeft, calls, calls, sagaVars>>
    /\ reply' = NoReply
    /\ UNCHANGED apiVars

order_validated_update(i) ==
    /\ At(i, "order_validated", "update_state")
    /\ orders' = UpdateOrderState(orders, inv[i].order.order_id, "validated")
    /\ Returns(i, "True", 0, NoOrder)
    /\ UNCHANGED <<payments, events, lateLeft, calls, sagaVars>>
    /\ reply' = NoReply
    /\ UNCHANGED apiVars

\* mutant: the idempotency check left out
IdempotencyHit_Never(existing) == FALSE

\* the idempotency check: `if existing:`
IdempotencyHit(existing) == existing # NoRow

payment_charged_select(i) ==
    /\ At(i, "payment_charged", "select_payment")
    /\ LET existing == SelectPayment(payments, inv[i].payment_id) IN
         IF IdempotencyHit(existing)
         THEN Ends(i, "ret", existing,
                   [text |-> "charged", amount |-> existing.amount, order |-> NoOrder])
         ELSE inv' = [inv EXCEPT ![i].pc = "insert_payment"]
    /\ UNCHANGED <<storeVars, lateLeft, calls, calls, sagaVars>>
    /\ reply' = NoReply
    /\ UNCHANGED apiVars

payment_charged_insert(i) ==
    /\ At(i, "payment_charged", "insert_payment")
    /\ IF PaymentKeyConflict(payments, inv[i].payment_id)
       THEN Raises(i, "UniqueViolationError") /\ UNCHANGED payments
       ELSE IF OrderKeyMissing(orders, inv[i].order.order_id)
       THEN Raises(i, "ForeignKeyViolationError") /\ UNCHANGED payments
       ELSE /\ payments' = Append(payments,
                  [payment_id |-> inv[i].payment_id, order_id |-> inv[i].order.order_id,
                   status |-> "charged", amount |-> Amount(inv[i].order)])
            /\ inv' = [inv EXCEPT ![i].pc = "update_state"]
    /\ UNCHANGED <<orders, events, lateLeft, calls, sagaVars>>
    /\ reply' = NoReply
    /\ UNCHANGED apiVars

payment_charged_update(i) ==
    /\ At(i, "payment_charged", "update_state")
    /\ orders' = UpdateOrderState(orders, inv[i].order.order_id, "payment_charged")
    /\ Returns(i, "charged", Amount(inv[i].order), NoOrder)
    /\ UNCHANGED <<payments, events, lateLeft, calls, sagaVars>>
    /\ reply' = NoReply
    /\ UNCHANGED apiVars

package_prepared_update(i) ==
    /\ At(i, "package_prepared", "update_state")
    /\ orders' = UpdateOrderState(orders, inv[i].order.order_id, "package_prepared")
    /\ inv' = [inv EXCEPT ![i].pc = "insert_event"]
    /\ UNCHANGED <<payments, events, lateLeft, calls, sagaVars>>
    /\ reply' = NoReply
    /\ UNCHANGED apiVars

package_prepared_event(i) ==
    /\ At(i, "package_prepared", "insert_event")
    /\ IF OrderKeyMissing(orders, inv[i].order.order_id)
       THEN Raises(i, "ForeignKeyViolationError") /\ UNCHANGED events
       ELSE /\ events' = events (+) SetToBag({EventRow(inv[i].order.order_id, "package_prepared")})
            /\ Returns(i, "Package ready", 0, NoOrder)
    /\ UNCHANGED <<orders, payments, lateLeft, calls, sagaVars>>
    /\ reply' = NoReply
    /\ UNCHANGED apiVars

carrier_dispatched_update(i) ==
    /\ At(i, "carrier_dispatched", "update_state")
    /\ orders' = UpdateOrderState(orders, inv[i].order.order_id, "dispatched")
    /\ inv' = [inv EXCEPT ![i].pc = "insert_event"]
    /\ UNCHANGED <<payments, events, lateLeft, calls, sagaVars>>
    /\ reply' = NoReply
    /\ UNCHANGED apiVars

carrier_dispatched_event(i) ==
    /\ At(i, "carrier_dispatched", "insert_event")
    /\ IF OrderKeyMissing(orders, inv[i].order.order_id)
       THEN Raises(i, "ForeignKeyViolationError") /\ UNCHANGED events
       ELSE /\ events' = events (+) SetToBag({EventRow(inv[i].order.order_id, "carrier_dispatched")})
            /\ Returns(i, "Dispatched", 0, NoOrder)
    /\ UNCHANGED <<orders, payments, lateLeft, calls, sagaVars>>
    /\ reply' = NoReply
    /\ UNCHANGED apiVars

EffectStep(i) ==
    \/ flaky_call(i)
    \/ order_received(i)
    \/ order_validated_select(i)
    \/ order_validated_update(i)
    \/ payment_charged_select(i)
    \/ payment_charged_insert(i)
    \/ payment_charged_update(i)
    \/ package_prepared_update(i)
    \/ package_prepared_event(i)
    \/ carrier_dispatched_update(i)
    \/ carrier_dispatched_event(i)

(***************************************************************************)
(* The activity layer: execute_activity under ACTIVITY_CONFIG.             *)
(***************************************************************************)
Awaited(i) == Busy(i) /\ inv[i].awaited

\* the ActivityError the workflow sees once the retry policy is exhausted
ActivityError(eff) == "ActivityError: " \o eff

\* workflow.execute_activity(activity, args, **ACTIVITY_CONFIG): first attempt
ExecuteActivity(pool, eff, o, pid) ==
    /\ inv' = Spawn(pool, NewInvocation(eff, o, pid, TRUE))
    /\ attempt' = 1

\* the timeout abandons the awaited invocation: it keeps running, or it is
\* stopped with its worker
Abandon(pool, i) ==
    IF lateLeft > 0
    THEN [pool EXCEPT ![i].awaited = FALSE]
    ELSE [pool EXCEPT ![i] = NoInv]

Release(pool, i) == [pool EXCEPT ![i] = NoInv]

\* mutant: a policy that allows one more attempt
AttemptsLeft_OneMore(n) == n <= maximum_attempts

\* retry_policy.maximum_attempts
AttemptsLeft(n) == n < maximum_attempts

(***************************************************************************)
(* OrderWorkflow.run                                                       *)
(***************************************************************************)
Running == pc # "done"

ReturnsResult(text) ==
    /\ outcome' = [kind |-> "returned", value |-> text]
    /\ pc' = "done"

\* the outer `except Exception as e: ... raise`
RaisesError(text) ==
    /\ outcome' = [kind |-> "raised", value |-> text]
    /\ pc' = "done"

\* `from temporalio.exceptions import TimeoutError`: the class the except clauses name
ImportedTimeoutError == "temporalio.exceptions.TimeoutError"

\* workflow.wait_condition(..., timeout=...) raises asyncio.TimeoutError on timeout
WaitConditionTimeout == "asyncio.TimeoutError"

\* `except TimeoutError:` catches the named class only
ExceptTimeoutError(raised) == raised = ImportedTimeoutError

\* mutants: a checkpoint left out
CancelledAfterReceive_Unchecked == FALSE
CancelledInReview_Unchecked == FALSE
\* mutant: the review checkpoint lets an approval override the cancellation
CancelledInReview_ApprovalWins == cancelled /\ ~manual_approval_received

\* the checkpoints `if self._cancelled: return "Order cancelled"`
CancelledAfterReceive == cancelled
CancelledAfterValidate == cancelled
CancelledInReview == cancelled

\* mutant: the review wait woken by cancellation only
ReviewCondition_CancelOnly == cancelled

\* lambda: self._manual_approval_received or self._cancelled
ReviewCondition == manual_approval_received \/ cancelled

\* lambda: self._dispatch_failed_reason is not None
HintCondition(reason) == reason # None

ShippingId(order_id, n) == "shipping-" \o order_id \o "-" \o ToString(n)

\* Step 1: execute_activity(receive_order_activity, order_id)
run_start_skips_receive ==
    /\ pc = "start"
    /\ pc' = "validate"
    /\ started' = started \cup {"validate"}
    /\ ExecuteActivity(inv, "order_validated", [NoOrder EXCEPT !.order_id = OrderId], None)
    /\ UNCHANGED <<storeVars, lateLeft, calls, fieldVars, outcome, e, timer, child, children,
                   cancelBeforeCharge, approvedAtStart, noteVars>>
    /\ reply' = NoReply
    /\ UNCHANGED apiVars

run_start ==
    /\ pc = "start"
    /\ pc' = "receive"
    /\ started' = started \cup {"receive"}
    /\ ExecuteActivity(inv, "order_received", [NoOrder EXCEPT !.order_id = OrderId], None)
    /\ UNCHANGED <<storeVars, lateLeft, calls, fieldVars, outcome, e, timer, child, children,
                   cancelBeforeCharge, approvedAtStart, noteVars>>
    /\ reply' = NoReply
    /\ UNCHANGED apiVars

\* Step 4: execute_activity(charge_payment_activity, self._order, payment_id)
ChargePayment(pool) ==
    /\ pc' = "charge"
    /\ started' = started \cup {"review", "charge"}
    /\ ExecuteActivity(pool, "payment_charged", order, PaymentId)
    /\ UNCHANGED <<outcome, timer>>

\* mutant: the reason is cleared before the first attempt only
ShippingLoop_ClearsOnce(pool, count) ==
    IF count < max_shipping_retries
    THEN /\ dispatch_failed_reason' = IF count = 0 THEN None ELSE dispatch_failed_reason
         /\ child' = [id |-> ShippingId(OrderId, count), pc |-> "prepare", err |-> None,
                    result |-> None]
         /\ children' = Append(children, ShippingId(OrderId, count))
         /\ started' = started \cup {"shipping"}
         /\ ExecuteActivity(pool, "package_prepared", order, None)
         /\ pc' = "shipping"
         /\ UNCHANGED outcome
    ELSE /\ RaisesError("Shipping retry logic error")
         /\ inv' = pool
         /\ UNCHANGED <<dispatch_failed_reason, child, children, started, attempt>>

\* mutant: an iteration without `self._dispatch_failed_reason = None`
ShippingLoop_KeepsReason(pool, count) ==
    IF count < max_shipping_retries
    THEN /\ UNCHANGED dispatch_failed_reason
         /\ child' = [id |-> ShippingId(OrderId, count), pc |-> "prepare", err |-> None,
                    result |-> None]
         /\ children' = Append(children, ShippingId(OrderId, count))
         /\ started' = started \cup {"shipping"}
         /\ ExecuteActivity(pool, "package_prepared", order, None)
         /\ pc' = "shipping"
         /\ UNCHANGED outcome
    ELSE /\ RaisesError("Shipping retry logic error")
         /\ inv' = pool
         /\ UNCHANGED <<dispatch_failed_reason, child, children, started, attempt>>

\* one iteration of `while self._shipping_retry_count < max_shipping_retries`
ShippingLoop(pool, count) ==
    IF count < max_shipping_retries
    THEN /\ dispatch_failed_reason' = None
         /\ child' = [id |-> ShippingId(OrderId, count), pc |-> "prepare", err |-> None,
                    result |-> None]
         /\ children' = Append(children, ShippingId(OrderId, count))
         /\ started' = started \cup {"shipping"}
         /\ ExecuteActivity(pool, "package_prepared", order, None)
         /\ pc' = "shipping"
         /\ UNCHANGED outcome
    ELSE /\ RaisesError("Shipping retry logic error")
         /\ inv' = pool
         /\ UNCHANGED <<dispatch_failed_reason, child, children, started, attempt>>

\* the receive activity returned: self._order = result; first checkpoint; Step 2
run_received(i) ==
    /\ pc = "receive" /\ Awaited(i) /\ inv[i].pc = "ret"
    /\ order' = inv[i].val.order
    /\ IF CancelledAfterReceive
       THEN /\ ReturnsResult("Order cancelled")
            /\ inv' = Release(inv, i)
            /\ attempt' = 0
            /\ UNCHANGED started
       ELSE /\ pc' = "validate"
            /\ started' = started \cup {"validate"}
            /\ ExecuteActivity(Release(inv, i), "order_validated", order', None)
            /\ UNCHANGED outcome
    /\ UNCHANGED <<storeVars, lateLeft, calls, cancelled, manual_approval_received, address_updated,
                   dispatch_failed_reason, shipping_retry_count, e, timer, child,
                   children, cancelBeforeCharge, approvedAtStart, noteVars>>
    /\ reply' = NoReply
    /\ UNCHANGED apiVars

\* the validate activity returned: second checkpoint; Step 3 begins
run_validated(i) ==
    /\ pc = "validate" /\ Awaited(i) /\ inv[i].pc = "ret"
    /\ IF CancelledAfterValidate
       THEN /\ ReturnsResult("Order cancelled")
            /\ inv' = Release(inv, i)
            /\ attempt' = 0
            /\ UNCHANGED <<started, timer>>
       ELSE IF ReviewCondition
       THEN ChargePayment(Release(inv, i))
       ELSE /\ pc' = "review"
            /\ started' = started \cup {"review"}
            /\ timer' = 0
            /\ inv' = Release(inv, i)
            /\ attempt' = 0
            /\ UNCHANGED outcome
    /\ UNCHANGED <<storeVars, lateLeft, calls, fieldVars, e, child, children, cancelBeforeCharge,
                   approvedAtStart, noteVars>>
    /\ reply' = NoReply
    /\ UNCHANGED apiVars

\* wait_condition returned: third checkpoint, then Step 4
run_review_done ==
    /\ pc = "review" /\ ReviewCondition
    /\ IF CancelledInReview
       THEN /\ ReturnsResult("Order cancelled")
            /\ UNCHANGED <<inv, attempt, started, timer>>
       ELSE ChargePayment(inv)
    /\ UNCHANGED <<storeVars, lateLeft, calls, fieldVars, e, child, children, cancelBeforeCharge,
                   approvedAtStart, noteVars>>
    /\ reply' = NoReply
    /\ UNCHANGED apiVars

\* mutant: wait_condition without a timeout
run_review_timeout_never ==
    /\ FALSE
    /\ UNCHANGED vars

\* wait_condition timed out after 8 s
run_review_timeout ==
    /\ pc = "review" /\ ~ReviewCondition /\ timer = ReviewTimeout
    /\ IF ExceptTimeoutError(WaitConditionTimeout)
       THEN ChargePayment(inv)
       ELSE /\ RaisesError(WaitConditionTimeout)
            /\ UNCHANGED <<inv, attempt, started, timer>>
    /\ UNCHANGED <<storeVars, lateLeft, calls, fieldVars, e, child, children, cancelBeforeCharge,
                   approvedAtStart, noteVars>>
    /\ reply' = NoReply
    /\ UNCHANGED apiVars

\* the charge activity returned: Step 5, _handle_shipping_with_retry
run_charged(i) ==
    /\ pc = "charge" /\ Awaited(i) /\ inv[i].pc = "ret"
    /\ ShippingLoop(Release(inv, i), shipping_retry_count)
    /\ UNCHANGED <<storeVars, lateLeft, calls, order, cancelled, manual_approval_received, address_updated,
                   shipping_retry_count, e, timer, cancelBeforeCharge, approvedAtStart, noteVars>>
    /\ reply' = NoReply
    /\ UNCHANGED apiVars

(***************************************************************************)
(* ShippingWorkflow.run (the child)                                        *)
(***************************************************************************)
\* mutant: a child that returns as soon as the package is prepared
shipping_prepared_returns(i) ==
    /\ pc = "shipping" /\ child.pc = "prepare" /\ Awaited(i) /\ inv[i].pc = "ret"
    /\ child' = [child EXCEPT !.pc = "returned", !.result = "Dispatched"]
    /\ inv' = Release(inv, i)
    /\ attempt' = 0
    /\ UNCHANGED <<storeVars, lateLeft, calls, fieldVars, pc, outcome, e, timer, histVars>>
    /\ reply' = NoReply
    /\ UNCHANGED apiVars

\* prepare_package_activity returned: Step 2, dispatch_carrier_activity
shipping_prepared(i) ==
    /\ pc = "shipping" /\ child.pc = "prepare" /\ Awaited(i) /\ inv[i].pc = "ret"
    /\ child' = [child EXCEPT !.pc = "dispatch"]
    /\ ExecuteActivity(Release(inv, i), "carrier_dispatched", inv[i].order, None)
    /\ UNCHANGED <<storeVars, lateLeft, calls, fieldVars, pc, outcome, e, timer, histVars>>
    /\ reply' = NoReply
    /\ UNCHANGED apiVars

\* dispatch_carrier_activity returned: `return result`
shipping_dispatched(i) ==
    /\ pc = "shipping" /\ child.pc = "dispatch" /\ Awaited(i) /\ inv[i].pc = "ret"
    /\ child' = [child EXCEPT !.pc = "returned", !.result = inv[i].val.text]
    /\ inv' = Release(inv, i)
    /\ attempt' = 0
    /\ UNCHANGED <<storeVars, lateLeft, calls, fieldVars, pc, outcome, e, timer, histVars>>
    /\ reply' = NoReply
    /\ UNCHANGED apiVars

\* mutant: the `raise` placed after the signal inside the inner try, so that a
\* failed signal leaves the handler without re-raising
shipping_notify_swallows ==
    /\ pc = "shipping" /\ child.pc = "notify"
    /\ \/ /\ dispatch_failed_reason' = child.err
          /\ child' = [child EXCEPT !.pc = "failed"]
       \/ /\ UNCHANGED dispatch_failed_reason
          /\ child' = [child EXCEPT !.pc = "returned"]
    /\ UNCHANGED <<storeVars, lateLeft, calls, inv, order, cancelled, manual_approval_received,
                   address_updated, shipping_retry_count, pc, outcome, e, timer,
                   attempt, histVars>>
    /\ reply' = NoReply
    /\ UNCHANGED apiVars

\* `except Exception as e:` signal the parent (best effort), then `raise`
shipping_notify ==
    /\ pc = "shipping" /\ child.pc = "notify"
    /\ \/ /\ dispatch_failed_reason' = child.err  \* the parent's dispatch_failed handler ran
          /\ handled' = handled \cup {"dispatch_failed"}
       \/ UNCHANGED <<dispatch_failed_reason, handled>>   \* parent_handle.signal raised
    /\ child' = [child EXCEPT !.pc = "failed"]
    /\ UNCHANGED <<storeVars, lateLeft, calls, inv, order, cancelled, manual_approval_received,
                   address_updated, shipping_retry_count, pc, outcome, e, timer,
                   attempt, started, children, cancelBeforeCharge, approvedAtStart,
                   cancelAtStart, delivered, repeated>>
    /\ reply' = NoReply
    /\ UNCHANGED apiVars

(***************************************************************************)
(* OrderWorkflow._handle_shipping_with_retry                               *)
(***************************************************************************)
\* f"Shipping failed after {max_shipping_retries} attempts: {e}"
ShippingFailedMessage(err) ==
    "Shipping failed after " \o ToString(max_shipping_retries) \o " attempts: " \o err

\* mutant: the exhaustion test written with > instead of >=
AfterHintWait_OffByOne(count, err) ==
    IF count > max_shipping_retries
    THEN /\ RaisesError(ShippingFailedMessage(err))
         /\ UNCHANGED timer
    ELSE /\ pc' = "retry_sleep"
         /\ timer' = 0
         /\ UNCHANGED outcome

\* after the wait for the hint: exhausted, or sleep before the next attempt
AfterHintWait(count, err) ==
    IF count >= max_shipping_retries
    THEN /\ RaisesError(ShippingFailedMessage(err))
         /\ UNCHANGED timer
    ELSE /\ pc' = "retry_sleep"
         /\ timer' = 0
         /\ UNCHANGED outcome

\* `return shipping_result`, then run returns f"Order completed: {shipping_result}"
handle_shipping_returned ==
    /\ pc = "shipping" /\ child.pc = "returned"
    /\ ReturnsResult("Order completed: " \o child.result)
    /\ child' = NoChild
    /\ UNCHANGED <<storeVars, lateLeft, calls, inv, fieldVars, e, timer, attempt, histVars>>
    /\ reply' = NoReply
    /\ UNCHANGED apiVars

\* mutant: the exhausted loop refunds the charge before it raises
handle_shipping_failed_refunds ==
    /\ pc = "shipping" /\ child.pc = "failed"
    /\ e' = "ChildWorkflowError"
    /\ shipping_retry_count' = shipping_retry_count + 1
    /\ child' = NoChild
    /\ IF HintCondition(dispatch_failed_reason)
       THEN AfterHintWait(shipping_retry_count', e')
       ELSE /\ pc' = "hint_wait"
            /\ timer' = 0
            /\ UNCHANGED outcome
    /\ payments' = IF shipping_retry_count' >= max_shipping_retries THEN << >> ELSE payments
    /\ UNCHANGED <<orders, events, lateLeft, calls, inv, order, cancelled,
                   manual_approval_received, address_updated, dispatch_failed_reason,
                   attempt, histVars>>
    /\ reply' = NoReply
    /\ UNCHANGED apiVars

\* mutant: a failure counted twice
handle_shipping_failed_twice ==
    /\ pc = "shipping" /\ child.pc = "failed"
    /\ e' = "ChildWorkflowError"
    /\ shipping_retry_count' = shipping_retry_count + 2
    /\ child' = NoChild
    /\ IF HintCondition(dispatch_failed_reason)
       THEN AfterHintWait(shipping_retry_count', e')
       ELSE /\ pc' = "hint_wait"
            /\ timer' = 0
            /\ UNCHANGED outcome
    /\ UNCHANGED <<storeVars, lateLeft, calls, inv, order, cancelled, manual_approval_received,
                   address_updated, dispatch_failed_reason, attempt, histVars>>
    /\ reply' = NoReply
    /\ UNCHANGED apiVars

\* `except Exception as e:` count the failure, wait for the hint
handle_shipping_failed ==
    /\ pc = "shipping" /\ child.pc = "failed"
    /\ e' = "ChildWorkflowError"
    /\ shipping_retry_count' = shipping_retry_count + 1
    /\ child' = NoChild
    /\ IF HintCondition(dispatch_failed_reason)
       THEN AfterHintWait(shipping_retry_count', e')
       ELSE /\ pc' = "hint_wait"
            /\ timer' = 0
            /\ UNCHANGED outcome
    /\ UNCHANGED <<storeVars, lateLeft, calls, inv, order, cancelled, manual_approval_received,
                   address_updated, dispatch_failed_reason, attempt, histVars>>
    /\ reply' = NoReply
    /\ UNCHANGED apiVars

\* the hint arrived within 2 s
handle_hint_received ==
    /\ pc = "hint_wait" /\ HintCondition(dispatch_failed_reason)
    /\ AfterHintWait(shipping_retry_count, e)
    /\ UNCHANGED <<storeVars, lateLeft, calls, inv, fieldVars, e, attempt, child, histVars>>
    /\ reply' = NoReply
    /\ UNCHANGED apiVars

handle_hint_timeout_either ==
    /\ pc = "hint_wait" /\ ~HintCondition(dispatch_failed_reason) /\ timer = HintTimeout
    /\ \/ AfterHintWait(shipping_retry_count, e)
       \/ /\ RaisesError(WaitConditionTimeout)
          /\ UNCHANGED timer
    /\ UNCHANGED <<storeVars, lateLeft, calls, inv, fieldVars, e, attempt, child, histVars>>
    /\ reply' = NoReply
    /\ UNCHANGED apiVars

\* no hint within 2 s
handle_hint_timeout ==
    /\ pc = "hint_wait" /\ ~HintCondition(dispatch_failed_reason) /\ timer = HintTimeout
    /\ IF ExceptTimeoutError(WaitConditionTimeout)
       THEN AfterHintWait(shipping_retry_count, e)
       ELSE /\ RaisesError(WaitConditionTimeout)
            /\ UNCHANGED timer
    /\ UNCHANGED <<storeVars, lateLeft, calls, inv, fieldVars, e, attempt, child, histVars>>
    /\ reply' = NoReply
    /\ UNCHANGED apiVars

\* workflow.sleep(1) is over: back to the loop head
handle_retry ==
    /\ pc = "retry_sleep" /\ timer = RetrySleep
    /\ ShippingLoop(inv, shipping_retry_count)
    /\ UNCHANGED <<storeVars, lateLeft, calls, order, cancelled, manual_approval_received, address_updated,
                   shipping_retry_count, e, timer, cancelBeforeCharge, approvedAtStart, noteVars>>
    /\ reply' = NoReply
    /\ UNCHANGED apiVars

\* one time-unit passes in a timed wait whose condition is false
WaitLimit ==
    CASE pc = "review"      -> ReviewTimeout
      [] pc = "hint_wait"   -> HintTimeout
      [] pc = "retry_sleep" -> RetrySleep
      [] OTHER              -> 0

WaitOver ==
    \/ pc = "review" /\ ReviewCondition
    \/ pc = "hint_wait" /\ HintCondition(dispatch_failed_reason)

Tick ==
    /\ pc \in {"review", "hint_wait", "retry_sleep"}
    /\ ~WaitOver
    /\ timer < WaitLimit
    /\ timer' = timer + 1
    /\ UNCHANGED <<storeVars, lateLeft, calls, inv, fieldVars, pc, outcome, e, attempt, child, histVars>>
    /\ reply' = NoReply
    /\ UNCHANGED apiVars

(***************************************************************************)
(* The activity layer: a failed or timed-out attempt.                      *)
(***************************************************************************)
\* mutant: `except Exception` returns a result instead of re-raising
StepFailed_Swallowed(pool, eff) ==
    /\ inv' = pool
    /\ attempt' = 0
    /\ IF pc = "shipping"
       THEN /\ child' = [child EXCEPT !.pc = "notify", !.err = ActivityError(eff)]
            /\ UNCHANGED <<pc, outcome>>
       ELSE /\ ReturnsResult("Order failed")
            /\ UNCHANGED child

\* the retry policy is exhausted: the ActivityError reaches the workflow
StepFailed(pool, eff) ==
    /\ inv' = pool
    /\ attempt' = 0
    /\ IF pc = "shipping"
       THEN /\ child' = [child EXCEPT !.pc = "notify", !.err = ActivityError(eff)]
            /\ UNCHANGED <<pc, outcome>>
       ELSE /\ RaisesError(ActivityError(eff))
            /\ UNCHANGED child

AttemptOver(pool, i) ==
    IF AttemptsLeft(attempt)
    THEN /\ inv' = Spawn(pool, NewInvocation(inv[i].eff, inv[i].order, inv[i].payment_id, TRUE))
         /\ attempt' = attempt + 1
         /\ UNCHANGED <<pc, outcome, child>>
    ELSE StepFailed(pool, inv[i].eff)

\* the awaited invocation raised
activity_failed(i) ==
    /\ Running /\ Awaited(i) /\ inv[i].pc = "err"
    /\ AttemptOver(Release(inv, i), i)
    /\ UNCHANGED <<storeVars, lateLeft, calls, fieldVars, e, timer, histVars>>
    /\ reply' = NoReply
    /\ UNCHANGED apiVars

\* the awaited invocation did not return within start_to_close_timeout
activity_timeout(i) ==
    /\ Running /\ Awaited(i) /\ inv[i].pc = "hung"
    /\ AttemptOver(Abandon(inv, i), i)
    /\ lateLeft' = IF lateLeft > 0 THEN lateLeft - 1 ELSE 0
    /\ UNCHANGED <<storeVars, calls, fieldVars, e, timer, histVars>>
    /\ reply' = NoReply
    /\ UNCHANGED apiVars

(***************************************************************************)
(* Signal handlers of OrderWorkflow.                                       *)
(***************************************************************************)
\* mutant: a second cancel_order takes the cancellation back
cancel_order_toggles ==
    /\ Running
    /\ cancelled' = ~cancelled
    /\ cancelBeforeCharge' = (cancelBeforeCharge \/ "charge" \notin started)
    /\ cancelAtStart' = (cancelAtStart \/ pc = "start")
    /\ repeated' = Repeats("cancel_order", cancelled)
    /\ handled' = handled \cup {"cancel_order"}
    /\ UNCHANGED <<storeVars, lateLeft, calls, inv, order, manual_approval_received, address_updated,
                   dispatch_failed_reason, shipping_retry_count, ctlVars, started,
                   children, approvedAtStart, delivered>>
    /\ reply' = NoReply
    /\ UNCHANGED apiVars

\* mutant: cancellation rolls the charge back
cancel_order_refunds ==
    /\ Running
    /\ cancelled' = TRUE
    /\ cancelBeforeCharge' = (cancelBeforeCharge \/ "charge" \notin started)
    /\ cancelAtStart' = (cancelAtStart \/ pc = "start")
    /\ repeated' = Repeats("cancel_order", cancelled)
    /\ handled' = handled \cup {"cancel_order"}
    /\ payments' = << >>
    /\ UNCHANGED <<orders, events, lateLeft, calls, inv, order, manual_approval_received,
                   address_updated, dispatch_failed_reason, shipping_retry_count, ctlVars,
                   started, children, approvedAtStart, delivered>>
    /\ reply' = NoReply
    /\ UNCHANGED apiVars

\* mutant: a cancel_order that, like update_address, needs self._order
cancel_order_needs_order ==
    /\ Running
    /\ cancelled' = (cancelled \/ order # NoOrder)
    /\ cancelBeforeCharge' = (cancelBeforeCharge \/ "charge" \notin started)
    /\ cancelAtStart' = (cancelAtStart \/ pc = "start")
    /\ repeated' = Repeats("cancel_order", cancelled)
    /\ handled' = handled \cup {"cancel_order"}
    /\ UNCHANGED <<storeVars, lateLeft, calls, inv, order, manual_approval_received, address_updated,
                   dispatch_failed_reason, shipping_retry_count, ctlVars, started,
                   children, approvedAtStart, delivered>>
    /\ reply' = NoReply
    /\ UNCHANGED apiVars

cancel_order ==
    /\ Running
    /\ cancelled' = TRUE
    /\ cancelBeforeCharge' = (cancelBeforeCharge \/ "charge" \notin started)
    /\ cancelAtStart' = (cancelAtStart \/ pc = "start")
    /\ repeated' = Repeats("cancel_order", cancelled)
    /\ handled' = handled \cup {"cancel_order"}
    /\ UNCHANGED <<storeVars, lateLeft, calls, inv, order, manual_approval_received, address_updated,
                   dispatch_failed_reason, shipping_retry_count, ctlVars, started,
                   children, approvedAtStart, delivered>>
    /\ reply' = NoReply
    /\ UNCHANGED apiVars

\* mutant: an approval that overrides an earlier cancellation
approve_order_uncancels ==
    /\ Running
    /\ manual_approval_received' = TRUE
    /\ cancelled' = FALSE
    /\ approvedAtStart' = (approvedAtStart \/ pc = "start")
    /\ repeated' = Repeats("approve_order", manual_approval_received)
    /\ handled' = handled \cup {"approve_order"}
    /\ UNCHANGED <<storeVars, lateLeft, calls, inv, order, address_updated,
                   dispatch_failed_reason, shipping_retry_count, ctlVars, started,
                   children, cancelBeforeCharge, cancelAtStart, delivered>>
    /\ reply' = NoReply
    /\ UNCHANGED apiVars

\* mutant: an approval that, like update_address, needs self._order
approve_order_needs_order ==
    /\ Running
    /\ manual_approval_received' = (manual_approval_received \/ order # NoOrder)
    /\ approvedAtStart' = (approvedAtStart \/ pc = "start")
    /\ repeated' = Repeats("approve_order", manual_approval_received)
    /\ handled' = handled \cup {"approve_order"}
    /\ UNCHANGED <<storeVars, lateLeft, calls, inv, order, cancelled, address_updated,
                   dispatch_failed_reason, shipping_retry_count, ctlVars, started,
                   children, cancelBeforeCharge, cancelAtStart, delivered>>
    /\ reply' = NoReply
    /\ UNCHANGED apiVars

approve_order ==
    /\ Running
    /\ manual_approval_received' = TRUE
    /\ approvedAtStart' = (approvedAtStart \/ pc = "start")
    /\ repeated' = Repeats("approve_order", manual_approval_received)
    /\ handled' = handled \cup {"approve_order"}
    /\ UNCHANGED <<storeVars, lateLeft, calls, inv, order, cancelled, address_updated,
                   dispatch_failed_reason, shipping_retry_count, ctlVars, started,
                   children, cancelBeforeCharge, cancelAtStart, delivered>>
    /\ reply' = NoReply
    /\ UNCHANGED apiVars

\* mutant: update_address that attaches the address and leaves the flag
update_address_no_flag(new_address) ==
    /\ Running
    /\ IF order # NoOrder
       THEN order' = [order EXCEPT !.address = new_address]
       ELSE UNCHANGED order
    /\ delivered' = [address |-> new_address, order_present |-> order # NoOrder]
    /\ handled' = handled \cup {"update_address"}
    /\ UNCHANGED <<storeVars, lateLeft, calls, inv, cancelled, manual_approval_received,
                   address_updated, dispatch_failed_reason, shipping_retry_count, ctlVars,
                   started, children, cancelBeforeCharge, approvedAtStart, cancelAtStart, repeated>>
    /\ reply' = NoReply
    /\ UNCHANGED apiVars

\* mutant: update_address without the `if self._order:` guard
update_address_unguarded(new_address) ==
    /\ Running
    /\ order' = [order EXCEPT !.address = new_address]
    /\ address_updated' = TRUE
    /\ delivered' = [address |-> new_address, order_present |-> order # NoOrder]
    /\ handled' = handled \cup {"update_address"}
    /\ UNCHANGED <<storeVars, lateLeft, calls, inv, cancelled, manual_approval_received,
                   dispatch_failed_reason, shipping_retry_count, ctlVars, started, children,
                   cancelBeforeCharge, approvedAtStart, cancelAtStart, repeated>>
    /\ reply' = NoReply
    /\ UNCHANGED apiVars

\* mutant: update_address that keeps the first address it attached
update_address_keeps_first(new_address) ==
    /\ Running
    /\ IF order # NoOrder /\ order.address = None
       THEN /\ order' = [order EXCEPT !.address = new_address]
            /\ address_updated' = TRUE
       ELSE UNCHANGED <<order, address_updated>>
    /\ delivered' = [address |-> new_address, order_present |-> order # NoOrder]
    /\ handled' = handled \cup {"update_address"}
    /\ UNCHANGED <<storeVars, lateLeft, calls, inv, cancelled, manual_approval_received,
                   dispatch_failed_reason, shipping_retry_count, ctlVars, started, children,
                   cancelBeforeCharge, approvedAtStart, cancelAtStart, repeated>>
    /\ reply' = NoReply
    /\ UNCHANGED apiVars

update_address(new_address) ==
    /\ Running
    /\ IF order # NoOrder
       THEN /\ order' = [order EXCEPT !.address = new_address]
            /\ address_updated' = TRUE
       ELSE UNCHANGED <<order, address_updated>>
    /\ delivered' = [address |-> new_address, order_present |-> order # NoOrder]
    /\ handled' = handled \cup {"update_address"}
    /\ UNCHANGED <<storeVars, lateLeft, calls, inv, cancelled, manual_approval_received,
                   dispatch_failed_reason, shipping_retry_count, ctlVars, started, children,
                   cancelBeforeCharge, approvedAtStart, cancelAtStart, repeated>>
    /\ reply' = NoReply
    /\ UNCHANGED apiVars

dispatch_failed(reason) ==
    /\ Running
    /\ dispatch_failed_reason' = reason
    /\ handled' = handled \cup {"dispatch_failed"}
    /\ UNCHANGED <<storeVars, lateLeft, calls, inv, order, cancelled, manual_approval_received,
                   address_updated, shipping_retry_count, ctlVars, started, children,
                   cancelBeforeCharge, approvedAtStart, cancelAtStart, delivered, repeated>>
    /\ reply' = NoReply
    /\ UNCHANGED apiVars

Reasons == {"R1"}

\* mutant: a snapshot of the flags as __init__ set them
StatusSnapshot_InitialFlags ==
    [answered |-> TRUE, order |-> order, cancelled |-> FALSE,
     approved |-> FALSE, address_updated |-> address_updated,
     shipping_retry_count |-> shipping_retry_count,
     dispatch_failed_reason |-> dispatch_failed_reason]

\* mutant: a snapshot that reports the number of the attempt logged on line 160
StatusSnapshot_AttemptNumber ==
    [answered |-> TRUE, order |-> order, cancelled |-> cancelled,
     approved |-> manual_approval_received, address_updated |-> address_updated,
     shipping_retry_count |-> shipping_retry_count + 1,
     dispatch_failed_reason |-> dispatch_failed_reason]

\* the dict get_status returns
StatusSnapshot ==
    [answered |-> TRUE, order |-> order, cancelled |-> cancelled,
     approved |-> manual_approval_received, address_updated |-> address_updated,
     shipping_retry_count |-> shipping_retry_count,
     dispatch_failed_reason |-> dispatch_failed_reason]

\* mutant: a query that takes the failure reason away
get_status_consumes ==
    /\ reply' = StatusSnapshot
    /\ dispatch_failed_reason' = None
    /\ UNCHANGED apiVars
    /\ UNCHANGED <<storeVars, inv, lateLeft, calls, order, cancelled, manual_approval_received,
                   address_updated, shipping_retry_count, ctlVars, histVars>>

\* @workflow.query get_status: answered at any suspension point
get_status ==
    /\ reply' = StatusSnapshot
    /\ UNCHANGED <<storeVars, inv, lateLeft, calls, sagaVars, apiVars>>

(***************************************************************************)
(* One OrderWorkflow run.                                                  *)
(***************************************************************************)
StoreInit ==
    /\ orders = << >>
    /\ payments = << >>
    /\ events = EmptyBag

SagaInit ==
    /\ order = NoOrder
    /\ cancelled = FALSE
    /\ manual_approval_received = FALSE
    /\ address_updated = FALSE
    /\ dispatch_failed_reason = None
    /\ shipping_retry_count = 0
    /\ pc = "start"
    /\ outcome = [kind |-> "running", value |-> None]
    /\ e = None
    /\ timer = 0
    /\ attempt = 0
    /\ child = NoChild
    /\ started = {}
    /\ children = << >>
    /\ cancelBeforeCharge = FALSE
    /\ approvedAtStart = FALSE
    /\ cancelAtStart = FALSE
    /\ delivered = NoDelivery
    /\ handled = {}
    /\ reply = NoReply

NoInvocations == inv = [i \in Slots |-> NoInv]

NoRequests == requests = [i \in ApiSlots |-> NoRequest]

\* the instance of the order was started, no HTTP request is open
Started == runs = 1 /\ NoRequests

Init ==
    /\ repeated = {}
    /\ Started
    /\ StoreInit
    /\ NoInvocations
    /\ lateLeft = 0
    /\ calls = 0
    /\ SagaInit

SagaStep ==
    \/ run_start
    \/ \E i \in Slots : run_received(i)
    \/ \E i \in Slots : run_validated(i)
    \/ run_review_done
    \/ run_review_timeout
    \/ \E i \in Slots : run_charged(i)
    \/ \E i \in Slots : shipping_prepared(i)
    \/ \E i \in Slots : shipping_dispatched(i)
    \/ shipping_notify
    \/ handle_shipping_returned
    \/ handle_shipping_failed
    \/ handle_hint_timeout
    \/ handle_retry
    \/ Tick
    \/ \E i \in Slots : activity_failed(i)
    \/ \E i \in Slots : activity_timeout(i)
    \/ cancel_order
    \/ approve_order
    \/ \E i \in Slots : EffectStep(i)

Next ==
    \/ SagaStep
    \/ handle_hint_received
    \/ \E a \in Addresses : update_address(a)
    \/ \E r \in Reasons : dispatch_failed(r)
    \/ get_status

Spec == Init /\ [][Next]_vars

\* what the workflow service, the worker and the clock do on their own: the
\* steps of the two workflows, of the executor and of the effect functions,
\* and the passing of time; the signals and queries are up to their senders
Progress ==
    \/ run_start
    \/ \E i \in Slots : run_received(i)
    \/ \E i \in Slots : run_validated(i)
    \/ run_review_done
    \/ run_review_timeout
    \/ \E i \in Slots : run_charged(i)
    \/ \E i \in Slots : shipping_prepared(i)
    \/ \E i \in Slots : shipping_dispatched(i)
    \/ shipping_notify
    \/ handle_shipping_returned
    \/ handle_shipping_failed
    \/ handle_hint_received
    \/ handle_hint_timeout
    \/ handle_retry
    \/ Tick
    \/ \E i \in Slots : activity_failed(i)
    \/ \E i \in Slots : activity_timeout(i)
    \/ \E i \in Slots : EffectStep(i)

\* the run under a service that schedules every task that is ready and a
\* clock that goes on
SpecFair == Spec /\ WF_vars(Progress)

(***************************************************************************)
(* The run with abandoned invocations that finish late.                    *)
(***************************************************************************)
InitLate ==
    /\ repeated = NotRecorded
    /\ Started
    /\ StoreInit
    /\ NoInvocations
    /\ lateLeft = MaxLate
    /\ calls = 0
    /\ SagaInit

NextLate ==
    \/ SagaStep
    \/ \E i \in Slots : flaky_call_wakes(i)

SpecLate == InitLate /\ [][NextLate]_vars

(***************************************************************************)
(* The effect functions alone: a caller that invokes them with arbitrary   *)
(* arguments, awaits each under a timeout, and collects what it returns.   *)
(***************************************************************************)
Effects == {"order_received", "order_validated", "payment_charged",
            "package_prepared", "carrier_dispatched"}

\* the payment identifiers an effect is invoked with
PaymentArgs(eff) == IF eff = "payment_charged" THEN PaymentIds ELSE {None}

\* two callers at a time: a retry beside an abandoned attempt, or two sagas
InFlight(pool) == Cardinality(Slots \ FreeSlots(pool))

invoke(eff, o, pid) ==
    /\ calls < MaxCalls
    /\ InFlight(inv) < 2
    /\ inv' = Spawn(inv, NewInvocation(eff, o, pid, TRUE))
    /\ calls' = calls + 1
    /\ UNCHANGED <<storeVars, lateLeft, sagaVars>>
    /\ reply' = NoReply
    /\ UNCHANGED apiVars

\* the same, once every earlier invocation is over
invoke_next(eff, o, pid) ==
    /\ NoInvocations
    /\ invoke(eff, o, pid)

collect(i) ==
    /\ Awaited(i) /\ inv[i].pc \in {"ret", "err"}
    /\ inv' = Release(inv, i)
    /\ UNCHANGED <<storeVars, lateLeft, calls, sagaVars>>
    /\ reply' = NoReply
    /\ UNCHANGED apiVars

abandon(i) ==
    /\ Awaited(i) /\ inv[i].pc = "hung"
    /\ inv' = Abandon(inv, i)
    /\ lateLeft' = IF lateLeft > 0 THEN lateLeft - 1 ELSE 0
    /\ UNCHANGED <<storeVars, calls, sagaVars>>
    /\ reply' = NoReply
    /\ UNCHANGED apiVars

\* the orders table once the receive step ran for every harness order
OrdersReceived ==
    << [id |-> "O1", state |-> "received", items |-> Items(1)],
       [id |-> "O2", state |-> "received", items |-> Items(1)] >>

InitFx ==
    /\ repeated = {}
    /\ Started
    /\ orders \in {<< >>, OrdersReceived}
    /\ payments = << >>
    /\ events = EmptyBag
    /\ NoInvocations
    /\ lateLeft = 0
    /\ calls = 0
    /\ SagaInit

HarnessStep ==
    \/ \E i \in Slots : collect(i)
    \/ \E i \in Slots : abandon(i)
    \/ \E i \in Slots : EffectStep(i)

NextFx ==
    \/ \E eff \in Effects, o \in HarnessOrders : \E pid \in PaymentArgs(eff) : invoke(eff, o, pid)
    \/ HarnessStep

SpecFx == InitFx /\ [][NextFx]_vars

NextSeq ==
    \/ \E eff \in Effects, o \in HarnessOrders : \E pid \in PaymentArgs(eff) : invoke_next(eff, o, pid)
    \/ HarnessStep

SpecSeq == InitFx /\ [][NextSeq]_vars

(***************************************************************************)
(* The HTTP front end (api.py) over the workflow service.  The run of the  *)
(* instance is reduced to two steps: the order is received, the run ends.  *)
(***************************************************************************)
Ok == 200
AlreadyRunning == 409
NotFound == 404
ServerError == 500

ApiSignals == {"cancel_order", "approve_order", "update_address"}
ApiOps == {"start_order", "get_order_status"} \cup ApiSignals

\* description.status.name of the instance under the workflow id of the order;
\* "ABSENT" stands for the WorkflowNotFoundError of the handle
InstanceStatus ==
    IF runs = 0 THEN "ABSENT"
    ELSE IF Running THEN "RUNNING"
    ELSE IF outcome.kind = "returned" THEN "COMPLETED"
    ELSE "FAILED"

\* status.status.name in ['RUNNING', 'CONTINUED_AS_NEW']
IsRunning(status) == status \in {"RUNNING", "CONTINUED_AS_NEW"}

\* `except Exception as e: raise HTTPException(status_code=500, ...)` around the
\* body of start_order: it also catches the HTTPException raised inside the body
start_order_except(raised) == ServerError

FirstCall(op) == IF op \in ApiSignals THEN "signal" ELSE "describe"

SagaSame == UNCHANGED <<storeVars, inv, lateLeft, calls, sagaVars>>

Respond(i, seen, code) ==
    requests' = [requests EXCEPT ![i].pc = "responded", ![i].seen = seen, ![i].code = code]

\* a request reaches one of the endpoints
api_request(i, op) ==
    /\ requests[i] = NoRequest
    /\ requests' = [requests EXCEPT ![i] = [NoRequest EXCEPT !.op = op, !.pc = FirstCall(op)]]
    /\ reply' = NoReply
    /\ UNCHANGED runs
    /\ SagaSame

\* start_order: existing_handle.describe() and the check of the status
start_order_describe(i) ==
    /\ requests[i].op = "start_order" /\ requests[i].pc = "describe"
    /\ IF IsRunning(InstanceStatus)
       THEN Respond(i, InstanceStatus, start_order_except("HTTPException(status_code=409)"))
       ELSE requests' = [requests EXCEPT ![i].pc = "start_workflow", ![i].seen = InstanceStatus]
    /\ reply' = NoReply
    /\ UNCHANGED runs
    /\ SagaSame

\* start_order: temporal_client.start_workflow(..., id=workflow_id); the service
\* refuses an id whose instance is running and starts a new instance otherwise
start_order_start(i) ==
    /\ requests[i].op = "start_order" /\ requests[i].pc = "start_workflow"
    /\ IF IsRunning(InstanceStatus)
       THEN /\ Respond(i, InstanceStatus, start_order_except("WorkflowAlreadyStartedError"))
            /\ UNCHANGED <<runs, fieldVars, ctlVars>>
       ELSE /\ runs < MaxRuns
            /\ runs' = runs + 1
            /\ Respond(i, requests[i].seen, Ok)
            /\ order' = NoOrder
            /\ cancelled' = FALSE
            /\ manual_approval_received' = FALSE
            /\ address_updated' = FALSE
            /\ dispatch_failed_reason' = None
            /\ shipping_retry_count' = 0
            /\ pc' = "start"
            /\ outcome' = [kind |-> "running", value |-> None]
            /\ UNCHANGED <<e, timer, attempt, child>>
    /\ reply' = NoReply
    /\ UNCHANGED <<storeVars, inv, lateLeft, calls, histVars>>

\* cancel_order, approve_order, update_address of api.py: handle.signal(...); the
\* signal reaches the handler of a running instance, or the handle raises
api_signal(i, new_address) ==
    /\ requests[i].op \in ApiSignals /\ requests[i].pc = "signal"
    /\ IF InstanceStatus = "RUNNING"
       THEN /\ Respond(i, InstanceStatus, Ok)
            /\ cancelled' = (cancelled \/ requests[i].op = "cancel_order")
            /\ manual_approval_received' =
                   (manual_approval_received \/ requests[i].op = "approve_order")
            /\ IF requests[i].op = "update_address" /\ order # NoOrder
               THEN /\ order' = [order EXCEPT !.address = new_address]
                    /\ address_updated' = TRUE
               ELSE UNCHANGED <<order, address_updated>>
       ELSE /\ Respond(i, InstanceStatus, NotFound)
            /\ UNCHANGED <<order, cancelled, manual_approval_received, address_updated>>
    /\ reply' = NoReply
    /\ UNCHANGED <<storeVars, inv, lateLeft, calls, dispatch_failed_reason, shipping_retry_count,
                   ctlVars, histVars, runs>>

\* get_order_status: handle.describe() and is_running
get_order_status_describe(i) ==
    /\ requests[i].op = "get_order_status" /\ requests[i].pc = "describe"
    /\ IF InstanceStatus = "ABSENT"
       THEN Respond(i, InstanceStatus, NotFound)
       ELSE IF IsRunning(InstanceStatus)
       THEN requests' = [requests EXCEPT ![i].pc = "query", ![i].seen = InstanceStatus]
       ELSE Respond(i, InstanceStatus, Ok)
    /\ reply' = NoReply
    /\ UNCHANGED runs
    /\ SagaSame

\* get_order_status: handle.query("get_status")
get_order_status_query(i) ==
    /\ requests[i].op = "get_order_status" /\ requests[i].pc = "query"
    /\ Respond(i, requests[i].seen, Ok)
    /\ reply' = StatusSnapshot
    /\ UNCHANGED runs
    /\ SagaSame

\* the response has left
api_returns(i) ==
    /\ requests[i].pc = "responded"
    /\ requests' = [requests EXCEPT ![i] = NoRequest]
    /\ reply' = NoReply
    /\ UNCHANGED runs
    /\ SagaSame

\* the running instance has received its order
api_run_receives ==
    /\ runs > 0 /\ pc = "start"
    /\ pc' = "review"
    /\ order' = OrderPayload(OrderId)
    /\ reply' = NoReply
    /\ UNCHANGED <<storeVars, inv, lateLeft, calls, cancelled, manual_approval_received,
                   address_updated, dispatch_failed_reason, shipping_retry_count,
                   outcome, e, timer, attempt, child, histVars, apiVars>>

\* the running instance ends: it returns, after its first Shipping Sub-Saga
\* unless it was cancelled, or it raises
api_run_ends ==
    /\ runs > 0 /\ Running
    /\ \/ /\ cancelled
          /\ ReturnsResult("Order cancelled")
          /\ UNCHANGED children
       \/ /\ ~cancelled
          /\ ReturnsResult("Order completed: Dispatched")
          /\ children' = Append(children, ShippingId(OrderId, shipping_retry_count))
       \/ /\ RaisesError(ActivityError("order_received"))
          /\ UNCHANGED children
    /\ reply' = NoReply
    /\ UNCHANGED <<storeVars, inv, lateLeft, calls, fieldVars, e, timer, attempt, child,
                   started, cancelBeforeCharge, approvedAtStart, noteVars, apiVars>>

InitApi ==
    /\ repeated = {}
    /\ StoreInit
    /\ NoInvocations
    /\ lateLeft = 0
    /\ calls = 0
    /\ SagaInit
    /\ runs = 0
    /\ NoRequests

NextApi ==
    \/ \E i \in ApiSlots, op \in ApiOps : api_request(i, op)
    \/ \E i \in ApiSlots : start_order_describe(i)
    \/ \E i \in ApiSlots : start_order_start(i)
    \/ \E i \in ApiSlots, a \in Addresses : api_signal(i, a)
    \/ \E i \in ApiSlots : get_order_status_describe(i)
    \/ \E i \in ApiSlots : get_order_status_query(i)
    \/ \E i \in ApiSlots : api_returns(i)
    \/ api_run_receives
    \/ api_run_ends

SpecApi == InitApi /\ [][NextApi]_vars

(***************************************************************************)
(* Properties.                                                             *)
(***************************************************************************)
Done == pc = "done"
Cancelled == [kind |-> "returned", value |-> "Order cancelled"]
Completed == [kind |-> "returned", value |-> "Order completed: Dispatched"]
Raised(text) == [kind |-> "raised", value |-> text]

\* the ways a run cancelled before charge-payment can end
CancelledOrStepFailed ==
    {Cancelled, Raised(ActivityError("order_received")), Raised(ActivityError("order_validated"))}

\* C1 (as stated): a cancel_order processed before charge-payment started makes
\* the run end with "Order cancelled", with no charge-payment and no child started.
C1_Original ==
    cancelBeforeCharge =>
        /\ "charge" \notin started
        /\ children = << >>
        /\ Done => outcome = Cancelled

\* C1 (amended): after a cancel_order processed before charge-payment started,
\* charge-payment and the shipping child are never started, and the run ends with
\* "Order cancelled" or with the ActivityError of the receive or validate step.
C1_CancelBeforeCharge ==
    cancelBeforeCharge =>
        /\ "charge" \notin started
        /\ children = << >>
        /\ Done => outcome \in CancelledOrStepFailed

C1_Witness == Done /\ cancelBeforeCharge /\ outcome = Cancelled /\ "validate" \in started

\* C2 (as stated): once cancelled is set, no validate, charge-payment or shipping
\* child is started, and the run ends with "Order cancelled".
C2_Original ==
    [][cancelled =>
          /\ (started' \ started) \cap {"validate", "charge", "shipping"} = {}
          /\ children' = children
          /\ (pc' = "done" => outcome' = Cancelled)]_vars

\* C2 (amended): once cancelled is set while charge-payment has not started, no
\* validate, charge-payment or shipping child is started from then on, and the
\* run ends with "Order cancelled" or with the ActivityError of receive or validate.
C2_NoStepAfterCancel ==
    [][(cancelled /\ "charge" \notin started) =>
          /\ (started' \ started) \cap {"validate", "charge", "shipping"} = {}
          /\ children' = children
          /\ (pc' = "done" => outcome' \in CancelledOrStepFailed)]_vars

C2_Witness == Done /\ cancelled /\ started = {"receive"} /\ outcome = Cancelled

\* C3: when the 8-unit review wait times out with neither approval nor
\* cancellation, the run goes on to charge-payment.
C3_TimeoutProceeds ==
    [][(pc = "review" /\ ~ReviewCondition /\ timer = ReviewTimeout /\ pc' # "review")
          => pc' = "charge"]_vars

\* C4: payment_charged invoked one invocation after another: every invocation that
\* returns leaves exactly one payments row for its payment_id and returns that
\* row's amount, which is the order's amount when the row is the order's; and no
\* invocation is rejected by the primary key.
C4_ChargeIdempotent ==
    \A i \in Slots :
        inv[i].eff = "payment_charged" =>
            /\ inv[i].pc = "ret" =>
                  /\ Cardinality(PaymentRows(payments, inv[i].payment_id)) = 1
                  /\ inv[i].val.amount = SelectPayment(payments, inv[i].payment_id).amount
                  /\ SelectPayment(payments, inv[i].payment_id).order_id = inv[i].order.order_id
                        => inv[i].val.amount = Amount(inv[i].order)
            /\ inv[i].pc = "err" => inv[i].val.text # "UniqueViolationError"

\* a second invocation that found the row of an earlier one for the same order
C4_Witness ==
    \E i \in Slots :
        /\ inv[i].eff = "payment_charged" /\ inv[i].pc = "ret"
        /\ inv[i].existing # NoRow
        /\ inv[i].existing.order_id = inv[i].order.order_id

\* an invocation of payment_charged that has not inserted a row
ChargeBeforeInsert(i) ==
    inv[i].eff = "payment_charged" /\ inv[i].pc \in {"flaky", "hung", "select_payment", "insert_payment"}

\* C5: under concurrent invocations of payment_charged the payments table never
\* holds two rows for one payment_id, and an invocation that finds the row of
\* another one writes nothing to the store.
C5_OneRowPerPayment ==
    [][/\ \A pid \in PaymentIds : Cardinality(PaymentRows(payments', pid)) <= 1
       /\ \A i \in Slots :
             (/\ ChargeBeforeInsert(i)
              /\ PaymentRows(payments, inv[i].payment_id) # {}
              /\ inv'[i] # inv[i])
             => UNCHANGED storeVars]_vars

\* the loser of a race: both invocations selected no row, the second INSERT is rejected
C5_Witness ==
    \E i \in Slots :
        /\ inv[i].eff = "payment_charged" /\ inv[i].pc = "err"
        /\ inv[i].val.text = "UniqueViolationError"

\* C6: the retry loop starts at most three children, and a run that ends after
\* the third failed child ends with the error that carries the attempt count 3.
C6_ThirdFailureMessage ==
    /\ Len(children) <= max_shipping_retries
    /\ (Done /\ shipping_retry_count = max_shipping_retries)
          => outcome = Raised(ShippingFailedMessage("ChildWorkflowError"))

\* C7: a cancel_order processed after charge-payment started changes the
\* cancelled flag and nothing else, and from then on no step removes or changes
\* a payments row.
C7_CancelAfterChargeFrame ==
    [][/\ (cancelled' /\ ~cancelled /\ "charge" \in started)
             => UNCHANGED <<storeVars, inv, lateLeft, calls, order, manual_approval_received,
                            address_updated, dispatch_failed_reason, shipping_retry_count,
                            ctlVars, started, children, cancelBeforeCharge,
                            approvedAtStart, cancelAtStart, delivered, repeated>>
       /\ (cancelled' /\ "charge" \in started)
             => /\ Len(payments') >= Len(payments)
                /\ SubSeq(payments', 1, Len(payments)) = payments]_vars

\* the charge was recorded, the cancel came after it, the run completed all the same
C7_Witness ==
    /\ Done /\ cancelled /\ ~cancelBeforeCharge
    /\ PaymentRows(payments, PaymentId) # {}
    /\ outcome = Completed

\* the steps of run that follow a step
LaterSteps(eff) ==
    CASE eff = "order_received"  -> {"validate", "review", "charge", "shipping"}
      [] eff = "order_validated" -> {"review", "charge", "shipping"}
      [] eff = "payment_charged" -> {"shipping"}

StepOf(label) ==
    CASE label = "receive"  -> "order_received"
      [] label = "validate" -> "order_validated"
      [] label = "charge"   -> "payment_charged"

\* C8: when the last allowed attempt of receive, validate or charge-payment
\* fails, the run ends failed with that step's error and starts nothing, and a
\* run that ended with such an error has started no later step.
C8_StepFailureEndsRun ==
    /\ [][\A i \in Slots :
            (/\ pc \in {"receive", "validate", "charge"}
             /\ Awaited(i) /\ inv[i].pc \in {"err", "hung"}
             /\ ~AttemptsLeft(attempt)
             /\ inv'[i] # inv[i])
            => /\ pc' = "done"
               /\ outcome' = Raised(ActivityError(StepOf(pc)))
               /\ started' = started
               /\ children' = children]_vars
    /\ [](\A eff \in {"order_received", "order_validated", "payment_charged"} :
            (Done /\ outcome = Raised(ActivityError(eff)))
               => started \cap LaterSteps(eff) = {} /\ children = << >>)

C8_Witness ==
    /\ Done /\ outcome = Raised(ActivityError("payment_charged"))
    /\ started = {"receive", "validate", "review", "charge"}

\* C9: invoking receive, prepare-package or dispatch-carrier again for an order
\* leaves no second orders row and no second events row of a type for it.
C9_NoDuplicateRows ==
    \A id \in OrderIds :
        /\ \A k, l \in 1 .. Len(orders) :
              (orders[k].id = id /\ orders[l].id = id) => k = l
        /\ \A type \in {"package_prepared", "carrier_dispatched"} : EventCount(id, type) <= 1

\* C10: approved before the first step, never cancelled, no step failing: the
\* run returns exactly "Order completed: Dispatched".
C10_HappyPath ==
    (/\ Done /\ approvedAtStart /\ ~cancelled
     /\ shipping_retry_count = 0
     /\ \A eff \in Effects : outcome # Raised(ActivityError(eff)))
    => outcome = Completed

C10_Witness ==
    /\ Done /\ approvedAtStart /\ ~cancelled /\ shipping_retry_count = 0
    /\ outcome = Completed
    /\ "review" \in started

\* no payment and no shipping write for the order of the run
NoPaymentOrShippingWrite ==
    /\ \A k \in 1 .. Len(payments) : payments[k].order_id # OrderId
    /\ OrderState(orders, OrderId) \notin {"payment_charged", "package_prepared", "dispatched"}
    /\ \A type \in {"package_prepared", "carrier_dispatched"} : EventCount(OrderId, type) = 0

\* C11 (as stated): after a cancel_order processed before the receive step ran,
\* the run returns "Order cancelled" and nothing of payment or shipping is written.
C11_Original ==
    cancelAtStart =>
        /\ Done => outcome = Cancelled
        /\ NoPaymentOrShippingWrite

\* C11 (amended): after a cancel_order processed before the receive step ran,
\* a run that ends returns "Order cancelled", or fails with the error of the
\* receive step; nothing of payment or shipping is ever written, and no step
\* after receive is started.
C11_CancelAtStart ==
    cancelAtStart =>
        /\ Done => outcome \in {Cancelled, Raised(ActivityError("order_received"))}
        /\ started \subseteq {"receive"}
        /\ NoPaymentOrShippingWrite

C11_Witness ==
    /\ Done /\ cancelAtStart /\ outcome = Cancelled
    /\ OrderState(orders, OrderId) = "received"

C14_StatusReflectsSignals ==
    reply.answered =>
        /\ reply.cancelled = cancelled
        /\ reply.approved = manual_approval_received
        /\ cancelAtStart \/ cancelBeforeCharge => reply.cancelled
        /\ approvedAtStart => reply.approved

\* a query answered while charge-payment runs, after a cancel_order and an approve_order
C14_Witness ==
    /\ reply.answered /\ reply.cancelled /\ reply.approved
    /\ pc = "charge"

\* C15: a step that answers get_status changes no field of the workflow, no
\* control position, no invocation and no row of the store.
C15_QueryChangesNothing ==
    [][reply'.answered => UNCHANGED <<storeVars, inv, lateLeft, calls, sagaVars>>]_vars

\* a query answered during the sleep before the third attempt, a reason recorded
C15_Witness ==
    /\ reply.answered
    /\ pc = "retry_sleep"
    /\ reply.dispatch_failed_reason # None
    /\ reply.shipping_retry_count = 2

\* C16: a cancel_order processed when cancelled is already set, and an
\* approve_order processed when the approval is already recorded, change no
\* field, no control position, no invocation and no row: the run goes on from
\* the state it had after the first one.
C16_SignalsIdempotent ==
    [][/\ (cancelled /\ repeated' # repeated /\ "cancel_order" \in repeated')
             => UNCHANGED <<storeVars, inv, lateLeft, calls, fieldVars, ctlVars,
                            started, children>>
       /\ (manual_approval_received /\ repeated' # repeated /\ "approve_order" \in repeated')
             => UNCHANGED <<storeVars, inv, lateLeft, calls, fieldVars, ctlVars,
                            started, children>>
       /\ (cancelled /\ cancel_order) => UNCHANGED <<fieldVars, ctlVars>>
       /\ (manual_approval_received /\ approve_order) => UNCHANGED <<fieldVars, ctlVars>>]_vars

\* both signals were processed twice and the run completed
C16_Witness ==
    /\ repeated = {"cancel_order", "approve_order"}
    /\ Done /\ outcome = Completed

\* C17: no step of the run, of its activities or of a signal handler takes
\* the cancelled flag or the approval flag back from true to false.
C17_FlagsOneWay ==
    [][/\ cancelled => cancelled'
       /\ manual_approval_received => manual_approval_received']_vars

\* approved first, cancelled before the review wait resumed, ended cancelled
C17_Witness ==
    /\ Done /\ outcome = Cancelled
    /\ cancelled /\ manual_approval_received
    /\ "review" \in started

\* C18: a start request that finds the instance of its order running, at its
\* check or in a race at the start itself, is answered with 409, and no
\* instance is started while one is running.
C18_AlreadyRunningRejected ==
    /\ [](\A i \in ApiSlots :
            (/\ requests[i].op = "start_order" /\ requests[i].pc = "responded"
             /\ IsRunning(requests[i].seen))
            => requests[i].code = AlreadyRunning)
    /\ [][runs' > runs => ~IsRunning(InstanceStatus)]_vars

\* C19: a signal or a status request for an order whose instance is absent or
\* has ended is answered with 404 and changes nothing of the instance.
C19_NotFound ==
    /\ [](\A i \in ApiSlots :
            (/\ requests[i].op \in ApiSignals \cup {"get_order_status"}
             /\ requests[i].pc = "responded"
             /\ requests[i].seen \in {"ABSENT", "COMPLETED", "FAILED"})
            => requests[i].code = NotFound)
    /\ [][\A i \in ApiSlots :
            (/\ requests[i].op \in ApiSignals \cup {"get_order_status"}
             /\ requests'[i].pc = "responded" /\ requests[i].pc # "responded"
             /\ requests'[i].seen \in {"ABSENT", "COMPLETED", "FAILED"})
            => UNCHANGED <<fieldVars, ctlVars, runs>>]_vars

\* the errors a step of the child can end with
ShippingStepErrors ==
    {ActivityError("package_prepared"), ActivityError("carrier_dispatched")}

\* C20: when a step of the child exhausts its attempts the child goes to its
\* except clause with that error; whether its signal to the parent is delivered
\* or not, it then ends failed with the same error and no result, and the retry
\* loop counts a failed attempt and returns nothing.
C20_ChildFailurePropagates ==
    /\ [][/\ \A i \in Slots :
               (/\ pc = "shipping" /\ Awaited(i) /\ inv[i].pc \in {"err", "hung"}
                /\ ~AttemptsLeft(attempt) /\ inv'[i] # inv[i])
               => (child'.pc = "notify" /\ child'.err = ActivityError(inv[i].eff))
          /\ (child.pc = "notify" /\ child' # child)
               => /\ child'.pc = "failed"
                  /\ child'.err = child.err
                  /\ child'.result = None
                  /\ dispatch_failed_reason' \in {dispatch_failed_reason, child.err}
          /\ (child.pc = "failed" /\ child' # child)
               => /\ shipping_retry_count' = shipping_retry_count + 1
                  /\ outcome'.kind # "returned"]_vars
    /\ [](child.pc \in {"notify", "failed"}
             => (child.err \in ShippingStepErrors /\ child.result = None))

\* the child failed at dispatch and its signal to the parent was not delivered
C20_Witness ==
    /\ child.pc = "failed"
    /\ child.err = ActivityError("carrier_dispatched")
    /\ dispatch_failed_reason = None

\* C21: when the 2-unit wait for the dispatch_failed signal times out after a
\* failed attempt with attempts remaining, the retry loop goes on to its
\* 1-unit sleep (and from there to a new child).
C21_HintTimeoutRetries ==
    [][(/\ pc = "hint_wait" /\ ~HintCondition(dispatch_failed_reason)
        /\ timer = HintTimeout
        /\ shipping_retry_count < max_shipping_retries
        /\ pc' # "hint_wait")
          => (pc' = "retry_sleep" /\ outcome'.kind = "running")]_vars

\* the suspension points and the end of OrderWorkflow.run
ControlPoints ==
    {"start", "receive", "validate", "review", "charge", "shipping", "hint_wait",
     "retry_sleep", "done"}

\* what OrderWorkflow.run can return or raise
Results ==
    {[kind |-> "running", value |-> None]}
    \cup {[kind |-> "returned", value |-> v] :
            v \in {"Order cancelled", "Order completed: Dispatched"}}
    \cup {[kind |-> "raised", value |-> v] :
            v \in {ActivityError(eff) : eff \in Effects}
                  \cup {WaitConditionTimeout, "Shipping retry logic error"}
                  \cup {ShippingFailedMessage("ChildWorkflowError")}}

C23_FreshSnapshot ==
    reply.answered =>
        /\ DOMAIN reply \ {"answered"} =
               {"order", "cancelled", "approved", "address_updated",
                "shipping_retry_count", "dispatch_failed_reason"}
        /\ handled = {} =>
               /\ reply.cancelled = FALSE
               /\ reply.approved = FALSE
               /\ reply.address_updated = FALSE
               /\ reply.dispatch_failed_reason = None
        /\ "shipping" \notin started => reply.shipping_retry_count = 0

\* a query answered during the review wait of a run no signal has reached
C23_Witness ==
    /\ reply.answered
    /\ handled = {}
    /\ pc = "review"
    /\ reply.order # NoOrder

\* C24: run starts its steps in the order receive, validate, review wait,
\* charge-payment, shipping.  validate is started only from the receive step
\* whose activity returned, the review wait only from the validate step whose
\* activity returned, charge-payment only when validate returned and the review
\* wait is over, the shipping loop only from the charge step whose activity
\* returned; each step is started once and none is skipped (the set of started
\* steps is always an initial part of the sequence).
C24_FixedOrder ==
    [][LET Succeeded(eff) == \E i \in Slots : Awaited(i) /\ At(i, eff, "ret")
           Enters(p) == pc # p /\ pc' = p
           Sequence == <<"receive", "validate", "review", "charge", "shipping">>
           Parts == {{Sequence[k] : k \in 1 .. n} : n \in 0 .. Len(Sequence)}
       IN  /\ started' \in Parts
           /\ Enters("receive") => started = {}
           /\ Enters("validate") =>
                 /\ pc = "receive" /\ Succeeded("order_received")
                 /\ started = {"receive"}
           /\ Enters("review") =>
                 /\ pc = "validate" /\ Succeeded("order_validated")
                 /\ started = {"receive", "validate"}
           /\ Enters("charge") =>
                 /\ \/ pc = "validate" /\ Succeeded("order_validated") /\ ReviewCondition
                    \/ pc = "review" /\ (ReviewCondition \/ timer = ReviewTimeout)
                 /\ {"receive", "validate"} \subseteq started
                 /\ "charge" \notin started
                 /\ "review" \in started'
           /\ Enters("shipping") =>
                 /\ "charge" \in started
                 /\ \/ /\ pc = "charge" /\ Succeeded("payment_charged")
                       /\ "shipping" \notin started
                    \/ pc = "retry_sleep" /\ "shipping" \in started]_vars

\* the first Shipping Sub-Saga of a run that went through all five steps
C24_Witness ==
    /\ pc = "shipping" /\ child.pc = "prepare"
    /\ started = {"receive", "validate", "review", "charge", "shipping"}
    /\ Len(children) = 1

\* C25: for one step the executor invokes the effect at most maximum_attempts
\* (3) times.  When the awaited invocation raised or did not return within the
\* timeout, the executor either starts one more invocation of the same effect,
\* which is the next attempt, or, if that was the 3rd attempt, surfaces the
\* failure to the workflow that awaits the step and starts no invocation.
C25_AtMostThreeAttempts ==
    [][/\ attempt' <= maximum_attempts
       /\ \A i \in Slots :
            (/\ Awaited(i) /\ inv[i].pc \in {"err", "hung"}
             /\ inv'[i] # inv[i]) =>
               IF attempt < maximum_attempts
               THEN /\ attempt' = attempt + 1
                    /\ \E j \in Slots :
                         /\ inv'[j].awaited
                         /\ inv'[j].eff = inv[i].eff /\ inv'[j].pc = "flaky"
                    /\ UNCHANGED <<pc, outcome, child>>
               ELSE /\ \A j \in Slots : ~inv'[j].awaited
                    /\ \/ /\ pc' = "done"
                          /\ outcome' = Raised(ActivityError(inv[i].eff))
                       \/ /\ pc = "shipping" /\ child'.pc = "notify"
                          /\ child'.err = ActivityError(inv[i].eff)]_vars

\* the third invocation of charge-payment hangs, after two failed attempts
C25_Witness ==
    /\ attempt = maximum_attempts
    /\ \E i \in Slots : Awaited(i) /\ At(i, "payment_charged", "hung")

\* C26: the child starts with prepare-package, starts dispatch-carrier only
\* from the prepare step whose activity returned, and returns only from the
\* dispatch step whose activity returned, with the result "Dispatched"; a
\* child whose step failed goes to its exception handler and has no result.
C26_PrepareThenDispatch ==
    [][LET Succeeded(eff) == \E i \in Slots : Awaited(i) /\ At(i, eff, "ret")
           Enters(p) == child.pc # p /\ child'.pc = p
       IN  /\ Enters("prepare") =>
                /\ child = NoChild
                /\ \E i \in Slots : inv'[i].awaited /\ inv'[i].eff = "package_prepared"
           /\ Enters("dispatch") =>
                /\ child.pc = "prepare" /\ Succeeded("package_prepared")
                /\ \E i \in Slots : inv'[i].awaited /\ inv'[i].eff = "carrier_dispatched"
           /\ Enters("returned") => child.pc = "dispatch" /\ Succeeded("carrier_dispatched")
           /\ (child.pc = "dispatch" /\ Succeeded("carrier_dispatched") /\ child' # child)
                => child'.pc = "returned"
           /\ child'.result = "Dispatched" <=> child'.pc = "returned"
           /\ child'.pc \in {"notify", "failed"} =>
                child'.err \in ShippingStepErrors]_vars

\* a child whose two steps succeeded, about to hand "Dispatched" to its parent
C26_Witness ==
    /\ child.pc = "returned"
    /\ child.result = "Dispatched"
    /\ EventCount(OrderId, "carrier_dispatched") > 0

\* C27: the identifiers of the Shipping Sub-Sagas started are pairwise
\* distinct, over the attempts of one saga instance and over the instances.
C27_DistinctIds ==
    \A k1, k2 \in DOMAIN children : k1 # k2 => children[k1] # children[k2]

\* C28: the step that starts a Shipping Sub-Saga, the first one as well as a
\* retry, leaves dispatch_failed_reason at None, whatever it was before.
C28_ReasonClearedAtStart ==
    [][children' # children =>
          /\ dispatch_failed_reason' = None
          /\ child'.pc = "prepare" /\ child'.id = children'[Len(children')]]_vars

\* the second attempt has just been started after a dispatch_failed was processed
C28_Witness ==
    /\ Len(children) = 2 /\ child.pc = "prepare"
    /\ "dispatch_failed" \in handled
    /\ dispatch_failed_reason = None

\* C29: shipping_retry_count stays within 0 .. 3, never decreases, grows by
\* exactly 1 in the step in which the failure of a Shipping Sub-Saga reaches
\* the retry loop and in no other step, and always equals the number of
\* sub-sagas started by this run whose execute_child_workflow has raised: the
\* sub-sagas started, less the one in progress and less the one that returned.
C29_CountIsFailedAttempts ==
    [][LET ChildFailureReaches == pc = "shipping" /\ child.pc = "failed" /\ child' = NoChild
           InProgress == IF child' # NoChild THEN 1 ELSE 0
           Returned == IF outcome' = Completed THEN 1 ELSE 0
       IN  /\ shipping_retry_count' \in 0 .. max_shipping_retries
           /\ shipping_retry_count' >= shipping_retry_count
           /\ ChildFailureReaches <=> shipping_retry_count' = shipping_retry_count + 1
           /\ ~ChildFailureReaches => shipping_retry_count' = shipping_retry_count
           /\ shipping_retry_count' = Len(children') - InProgress - Returned]_vars

\* the third Shipping Sub-Saga in progress, after two counted failures
C29_Witness ==
    /\ shipping_retry_count = 2
    /\ pc = "shipping" /\ child # NoChild
    /\ Len(children) = 3

\* C30: the dispatch_failed reason only shortens the wait.  However the wait
\* for it ends, with the reason present or without it, the retry loop goes on
\* the same way: to the sleep before the next attempt while attempts remain,
\* and otherwise to the exhaustion error built from max_shipping_retries and
\* the failure of the last sub-saga.
C30_ReasonOnlyWakes ==
    [][(pc = "hint_wait" /\ pc' # "hint_wait") =>
          IF shipping_retry_count < max_shipping_retries
          THEN pc' = "retry_sleep" /\ outcome'.kind = "running"
          ELSE pc' = "done" /\ outcome' = Raised(ShippingFailedMessage(e))]_vars

\* C31: an update_address processed while self._order is set attaches the
\* address and sets address_updated in the same step and changes no other
\* field of the order, no other field of the workflow and no control position.
\* In every state, and in every answer of get_status, address_updated holds
\* exactly when the order carries an address, and the address carried is the
\* one of the last update processed while the order was set.
C31_AddressAtomic ==
    [][/\ \A a \in Addresses :
            (update_address(a) /\ order # NoOrder) =>
               /\ order' = [order EXCEPT !.address = a]
               /\ address_updated'
               /\ UNCHANGED <<cancelled, manual_approval_received, dispatch_failed_reason,
                              shipping_retry_count, ctlVars, storeVars, inv>>
       /\ address_updated' <=> (order' # NoOrder /\ order'.address # None)
       /\ delivered'.order_present => order'.address = delivered'.address
       /\ reply'.answered =>
            (reply'.address_updated <=> reply'.order.address # None)]_vars

\* the second address delivered replaced the first while the child was running
C31_Witness ==
    /\ address_updated /\ order.address = "A1"
    /\ delivered = [address |-> "A1", order_present |-> TRUE]
    /\ pc = "shipping"
    /\ order.items # << >>

\* C32: a completed result is returned only by a run whose charge-payment
\* step was started and whose last Shipping Sub-Saga returned, and the text
\* returned carries the payment outcome (its status, its amount or its payment
\* identifier) next to the shipping outcome.
C32_ResultCombines ==
    LET Contains(text, part) ==
            \E k \in 1 .. (Len(text) - Len(part) + 1) :
                SubSeq(text, k, k + Len(part) - 1) = part
        IsCompleted == Done /\ outcome.kind = "returned" /\ outcome.value # "Order cancelled"
    IN  IsCompleted =>
            /\ {"charge", "shipping"} \subseteq started
            /\ PaymentRows(payments, PaymentId) # {}
            /\ Contains(outcome.value, "Dispatched")
            /\ \/ Contains(outcome.value, "charged")
               \/ Contains(outcome.value, PaymentId)
               \/ Contains(outcome.value, ToString(Amount(order)))

\* C33: an approve_order or cancel_order processed before the review wait, at
\* any point from the start of the instance on, stays recorded in its flag.
\* When the receive step returns after a cancel_order the run returns "Order
\* cancelled"; when the validate step returns after a cancel_order the run
\* returns "Order cancelled", and after an approve_order alone it starts
\* charge-payment in the same step, without a wait and without the timer.
C33_EarlySignalsKept ==
    [][LET Succeeded(eff) == \E i \in Slots : Awaited(i) /\ At(i, eff, "ret")
           Leaves(p) == pc = p /\ pc' # p
       IN  /\ "approve_order" \in handled' => manual_approval_received'
           /\ "cancel_order" \in handled' => cancelled'
           /\ (Leaves("receive") /\ Succeeded("order_received")
                 /\ "cancel_order" \in handled)
                => pc' = "done" /\ outcome' = Cancelled
           /\ (Leaves("validate") /\ Succeeded("order_validated")) =>
                IF "cancel_order" \in handled
                THEN pc' = "done" /\ outcome' = Cancelled
                ELSE IF "approve_order" \in handled
                THEN pc' = "charge" /\ timer' = 0
                ELSE pc' = "review"]_vars

\* approved before the first step of run: charge-payment started with no wait
C33_Witness ==
    /\ approvedAtStart /\ ~cancelled
    /\ pc = "charge" /\ timer = 0
    /\ "review" \in started
    /\ handled = {"approve_order"}

\* C34: the INSERT of order_received, run for an order identifier that has a
\* row already, changes no row of the orders table, whatever state the row is
\* in, and the invocation returns the order payload of that identifier.
C34_ReceiveInsertIfAbsent ==
    [][\A i \in Slots :
          (/\ Awaited(i) /\ At(i, "order_received", "insert_order")
           /\ inv'[i] # inv[i]
           /\ HasOrder(orders, inv[i].order.order_id)) =>
             /\ UNCHANGED storeVars
             /\ inv'[i].pc = "ret"
             /\ inv'[i].val.order = OrderPayload(inv[i].order.order_id)]_vars

\* order_received returned for an order whose row had been validated before
C34_Witness ==
    \E i \in Slots :
        /\ Awaited(i) /\ At(i, "order_received", "ret")
        /\ OrderState(orders, inv[i].order.order_id) = "validated"
        /\ inv[i].val.order = OrderPayload(inv[i].order.order_id)

\* C35: when the review wait ends with cancel_order and approve_order both
\* processed, in either order, the run returns "Order cancelled" in that step
\* and charge-payment is not started; charge-payment is never started by a
\* step taken with the cancelled flag set.
C35_CancelWins ==
    [][/\ (/\ pc = "review" /\ pc' # "review"
           /\ {"cancel_order", "approve_order"} \subseteq handled) =>
             /\ pc' = "done" /\ outcome' = Cancelled
             /\ "charge" \notin started'
             /\ \A i \in Slots : inv'[i].eff # "payment_charged"
       /\ ("charge" \in started' /\ "charge" \notin started) => ~cancelled]_vars

\* both signals reached the run during its review wait, which ended cancelled
C35_Witness ==
    /\ Done /\ outcome = Cancelled
    /\ "review" \in started /\ "charge" \notin started
    /\ handled = {"cancel_order", "approve_order"}
    /\ ~approvedAtStart /\ ~cancelAtStart

\* C36: the state stored for the order only moves forward along received,
\* validated, payment_charged, package_prepared, dispatched: no step writes an
\* earlier state over a later one.
C36_StateMovesForward ==
    [][LET Lifecycle == <<"received", "validated", "payment_charged", "package_prepared",
                          "dispatched">>
           Rank(state) == IF state = None THEN 0
                          ELSE CHOOSE k \in DOMAIN Lifecycle : Lifecycle[k] = state
       IN  Rank(OrderState(orders', OrderId)) >= Rank(OrderState(orders, OrderId))]_vars

\* C37: a reason sent by a Shipping Sub-Saga (the error of one of its steps)
\* enters dispatch_failed_reason only through the notification of the
\* sub-saga in progress, the last one started.  It is not present while a
\* sub-saga is running or has returned, nor after the run completed; the
\* reason present when the retry loop handles the failure of an attempt is
\* the error of that attempt, unless a sender outside the run replaced it.
C37_ReasonOfCurrentAttempt ==
    [][LET FromChild(reason) == reason \in ShippingStepErrors
       IN  /\ (FromChild(dispatch_failed_reason')
                 /\ dispatch_failed_reason' # dispatch_failed_reason) =>
                /\ pc = "shipping" /\ child.pc = "notify" /\ child'.pc = "failed"
                /\ dispatch_failed_reason' = child.err
                /\ child.id = children[Len(children)]
           /\ child'.pc \in {"prepare", "dispatch", "notify", "returned"} =>
                ~FromChild(dispatch_failed_reason')
           /\ outcome' = Completed => ~FromChild(dispatch_failed_reason')
           /\ (/\ pc = "shipping" /\ child.pc = "failed" /\ child' = NoChild
               /\ FromChild(dispatch_failed_reason)) =>
                dispatch_failed_reason = child.err]_vars

\* the second attempt failed and its notification is the reason held
C37_Witness ==
    /\ pc = "shipping" /\ child.pc = "failed"
    /\ Len(children) = 2
    /\ dispatch_failed_reason = child.err
    /\ dispatch_failed_reason \in ShippingStepErrors

\* C38: a run that raised the exhaustion error of the shipping loop leaves the
\* payments row of its charge in the store, with status charged and the
\* amount of the order; from the first Shipping Sub-Saga on no step of the run
\* removes or changes a payments row.
C38_ChargeKeptAfterExhaustion ==
    [][/\ (Done' /\ outcome' = Raised(ShippingFailedMessage(e'))) =>
             /\ shipping_retry_count' = max_shipping_retries
             /\ \E k \in PaymentRows(payments', PaymentId) :
                  /\ payments'[k].status = "charged"
                  /\ payments'[k].order_id = OrderId
                  /\ payments'[k].amount = Amount(order')
       /\ "shipping" \in started => payments' = payments]_vars

\* three attempts failed, the run raised the exhaustion error, the charge is recorded
C38_Witness ==
    /\ Done /\ outcome = Raised(ShippingFailedMessage(e))
    /\ Len(children) = max_shipping_retries
    /\ PaymentRows(payments, PaymentId) # {}

\* C39: under fair scheduling every run reaches a terminal outcome: it
\* returns (completed or cancelled) or it raises (failed), whatever the effect
\* invocations do and whatever signals arrive.
C39_Terminates == <>(Done /\ outcome.kind \in {"returned", "raised"})

\* a run nobody signalled, ended by the timeout of its review wait
C39_Witness ==
    /\ Done /\ outcome = Raised(WaitConditionTimeout)
    /\ handled = {}
    /\ timer = ReviewTimeout /\ started = {"receive", "validate", "review"}

\* C40: the `raise Exception("Shipping retry logic error")` after the retry
\* loop is never reached: no run ends with that error, the loop is entered
\* with shipping_retry_count = 0, and its condition is evaluated again, after
\* the sleep, only with shipping_retry_count below max_shipping_retries.
C40_FallbackUnreachable ==
    [][/\ outcome' # Raised("Shipping retry logic error")
       /\ (pc = "charge" /\ pc' = "shipping") => shipping_retry_count = 0
       /\ (pc = "retry_sleep" /\ pc' # "retry_sleep") =>
             /\ shipping_retry_count < max_shipping_retries
             /\ pc' = "shipping"]_vars

\* the sleep before the third attempt is over: the loop condition is evaluated next
C40_Witness ==
    /\ pc = "retry_sleep" /\ timer = RetrySleep
    /\ shipping_retry_count = max_shipping_retries - 1

====
